---------------------------- MODULE Spec2Model ----------------------------
(***************************************************************************)
(* Grid-trading backtest of bot.py: grid generation, the per-tick SELL and *)
(* BUY simulation, the trade log and the profit total.                     *)
(*                                                                         *)
(* Numbers.  Prices, bounds and spacing are integers counting units of     *)
(* 0.00001, so round(x, 4) rounds to a multiple of RoundStep = 10 units.   *)
(* Python floats are modelled as a binary floating-point format with Prec  *)
(* significand bits over these units: every integer below 2^Prec is exact, *)
(* larger values are rounded half-to-even to Prec significant bits, as     *)
(* IEEE-754 addition does.  Profits are exact rationals <<num, den>>.      *)
(***************************************************************************)
EXTENDS Integers, Sequences, FiniteSets, TLC

VARIABLES
    LOWER_BOUND,        \* st.number_input "Lower Bound Price"
    UPPER_BOUND,        \* st.number_input "Upper Bound Price"
    GRID_SPACING,       \* st.number_input "Grid Spacing ($)"
    TRADE_AMOUNT_USDT,  \* st.number_input "Amount per Trade ($)"
    df_prices,          \* the fetched close-price series, in row order
    pc,                 \* position of the script run
    grid_levels,
    open_positions,
    trade_log,
    total_profit,
    tick                \* rows of df_prices the simulation loop has taken

vars == <<LOWER_BOUND, UPPER_BOUND, GRID_SPACING, TRADE_AMOUNT_USDT, df_prices,
          pc, grid_levels, open_positions, trade_log, total_profit, tick>>

inputs == <<LOWER_BOUND, UPPER_BOUND, GRID_SPACING, TRADE_AMOUNT_USDT, df_prices>>

(***************************************************************************)
(* Bounds of the model.                                                    *)
(***************************************************************************)
MaxTicks == 4       \* longest price series
Prec == 16          \* significand bits of the modelled float format

(***************************************************************************)
(* round(level, 4): four decimals are RoundStep units of 0.00001.          *)
(***************************************************************************)
RoundStep == 10

(***************************************************************************)
(* Float arithmetic.                                                       *)
(***************************************************************************)
Abs(x) == IF x < 0 THEN -x ELSE x

\* nearest multiple of q to x, ties to the even multiple
RoundHalfEven(x, q) ==
    LET k == x \div q
        r == x % q
    IN  IF 2 * r < q THEN k * q
        ELSE IF 2 * r > q THEN (k + 1) * q
        ELSE IF k % 2 = 0 THEN k * q ELSE (k + 1) * q

RECURSIVE Ulp(_)
\* distance between neighbouring floats at magnitude x >= 0
Ulp(x) == IF x < 2 ^ Prec THEN 1 ELSE 2 * Ulp(x \div 2)

\* the float nearest to the real number x
fl(x) == RoundHalfEven(x, Ulp(Abs(x)))

\* a + b on floats
FAdd(a, b) == fl(a + b)

\* round(x, 4)
Round4(x) == fl(RoundHalfEven(x, RoundStep))

(***************************************************************************)
(* Exact rationals <<num, den>>, den > 0, in lowest terms.                 *)
(***************************************************************************)
RECURSIVE GCD(_, _)
GCD(a, b) == IF b = 0 THEN a ELSE GCD(b, a % b)

Rat(n, d) ==
    LET s == IF d < 0 THEN -1 ELSE 1
        g == GCD(Abs(n), Abs(d))
    IN  <<(s * n) \div g, (s * d) \div g>>

Zero == <<0, 1>>

RatAdd(p, q) == Rat(p[1] * q[2] + q[1] * p[2], p[2] * q[2])

(***************************************************************************)
(* Input validation and grid generation.                                   *)
(***************************************************************************)
\* mutant: only a negative spacing is refused
SpacingRejectedIfNegative(spacing) == spacing < 0

\* if GRID_SPACING <= 0: st.error(...)
SpacingRejected(spacing) == spacing <= 0

RECURSIVE GenerateGrid(_, _, _)
\* level = LOWER_BOUND; while level <= UPPER_BOUND: append round(level, 4);
\* level += GRID_SPACING.  When the float sum level + spacing is level again
\* the loop repeats the same iteration for ever: hung is TRUE and levels is
\* the prefix appended before the first repeated iteration.
GenerateGrid(level, upper, spacing) ==
    IF ~(level <= upper) THEN [levels |-> <<>>, hung |-> FALSE]
    ELSE IF FAdd(level, spacing) = level
         THEN [levels |-> <<Round4(level)>>, hung |-> TRUE]
    ELSE LET rest == GenerateGrid(FAdd(level, spacing), upper, spacing)
         IN  [levels |-> <<Round4(level)>> \o rest.levels, hung |-> rest.hung]

(***************************************************************************)
(* The simulation loop body.                                               *)
(***************************************************************************)
\* mutant: the occupancy test compares against the sell price of a position
is_already_bought_at_sell_price(level, open) ==
    \E i \in 1..Len(open) : open[i].buy_price + GRID_SPACING = level

\* any(pos['buy_price'] == level for pos in open_positions)
is_already_bought(level, open) ==
    \E i \in 1..Len(open) : open[i].buy_price = level

\* sell_price = position['buy_price'] + GRID_SPACING
SellPrice(position) == FAdd(position.buy_price, GRID_SPACING)

\* mutant: the price has to exceed the sell price
SellDueStrict(position, price) == price > SellPrice(position)

\* if price >= sell_price
SellDue(position, price) == price >= SellPrice(position)

\* mutant: the price difference is taken the wrong way round
ProfitBuyMinusSell(position) ==
    Rat((position.buy_price - SellPrice(position)) * TRADE_AMOUNT_USDT,
        position.buy_price)

\* mutant: the profit is taken relative to the sell price
ProfitOnSellPrice(position) ==
    Rat(GRID_SPACING * TRADE_AMOUNT_USDT, SellPrice(position))

\* profit = GRID_SPACING * TRADE_AMOUNT_USDT / position['buy_price']
Profit(position) == Rat(GRID_SPACING * TRADE_AMOUNT_USDT, position.buy_price)

\* mutant: the closed position stays in the list
RemoveNone(seq, x) == seq

\* list.remove(x): drops the first element equal to x
RemoveFirst(seq, x) ==
    LET hits == {i \in 1..Len(seq) : seq[i] = x}
    IN  IF hits = {} THEN seq
        ELSE LET j == CHOOSE i \in hits : \A h \in hits : i <= h
             IN  SubSeq(seq, 1, j - 1) \o SubSeq(seq, j + 1, Len(seq))

RECURSIVE SellSimLive(_, _, _, _, _)
\* mutant: the loop runs over the live list, not over the copy
SellSimLive(snapshot, k, now, price, st) ==
    IF k > Len(st.open) THEN st
    ELSE LET position == st.open[k] IN
         IF ~SellDue(position, price)
         THEN SellSimLive(snapshot, k + 1, now, price, st)
         ELSE IF position.buy_price = 0
         THEN [st EXCEPT !.err = TRUE]
         ELSE SellSimLive(snapshot, k + 1, now, price,
                  [open  |-> RemoveFirst(st.open, position),
                   log   |-> Append(st.log, [time |-> now, action |-> "SELL",
                                             price |-> SellPrice(position),
                                             value |-> Profit(position)]),
                   total |-> RatAdd(st.total, Profit(position)),
                   err   |-> FALSE])

RECURSIVE SellSimReversed(_, _, _, _, _)
\* mutant: the loop runs over the copy from its end
SellSimReversed(snapshot, k, now, price, st) ==
    IF k > Len(snapshot) THEN st
    ELSE LET position == snapshot[Len(snapshot) + 1 - k] IN
         IF ~SellDue(position, price)
         THEN SellSimReversed(snapshot, k + 1, now, price, st)
         ELSE IF position.buy_price = 0
         THEN [st EXCEPT !.err = TRUE]
         ELSE SellSimReversed(snapshot, k + 1, now, price,
                  [open  |-> RemoveFirst(st.open, position),
                   log   |-> Append(st.log, [time |-> now, action |-> "SELL",
                                             price |-> SellPrice(position),
                                             value |-> Profit(position)]),
                   total |-> RatAdd(st.total, Profit(position)),
                   err   |-> FALSE])

RECURSIVE SellSim(_, _, _, _, _)
\* for position in open_positions[:]: ... ; snapshot is the copy, k the
\* index of the position under the loop, st the live state
\* [open, log, total, err].  A zero buy_price raises ZeroDivisionError
\* at the profit computation and leaves st as it was at that point.
SellSim(snapshot, k, now, price, st) ==
    IF k > Len(snapshot) THEN st
    ELSE LET position == snapshot[k] IN
         IF ~SellDue(position, price)
         THEN SellSim(snapshot, k + 1, now, price, st)
         ELSE IF position.buy_price = 0
         THEN [st EXCEPT !.err = TRUE]
         ELSE SellSim(snapshot, k + 1, now, price,
                  [open  |-> RemoveFirst(st.open, position),
                   log   |-> Append(st.log, [time |-> now, action |-> "SELL",
                                             price |-> SellPrice(position),
                                             value |-> Profit(position)]),
                   total |-> RatAdd(st.total, Profit(position)),
                   err   |-> FALSE])

RECURSIVE BuySimNoBreak(_, _, _, _)
\* mutant: the scan goes on after a buy
BuySimNoBreak(k, now, price, st) ==
    IF k > Len(grid_levels) THEN st
    ELSE LET level == grid_levels[k] IN
         IF price <= level /\ ~is_already_bought(level, st.open)
         THEN BuySimNoBreak(k + 1, now, price,
                  [open |-> Append(st.open, [buy_price |-> level,
                                             amount |-> TRADE_AMOUNT_USDT,
                                             timestamp |-> now]),
                   log  |-> Append(st.log, [time |-> now, action |-> "BUY",
                                            price |-> level,
                                            value |-> Rat(TRADE_AMOUNT_USDT, 1)])])
         ELSE BuySimNoBreak(k + 1, now, price, st)

RECURSIVE BuySimDescending(_, _, _, _)
\* mutant: the scan runs from the highest level down
BuySimDescending(k, now, price, st) ==
    IF k > Len(grid_levels) THEN st
    ELSE LET level == grid_levels[Len(grid_levels) + 1 - k] IN
         IF price <= level /\ ~is_already_bought(level, st.open)
         THEN [open |-> Append(st.open, [buy_price |-> level,
                                         amount |-> TRADE_AMOUNT_USDT,
                                         timestamp |-> now]),
               log  |-> Append(st.log, [time |-> now, action |-> "BUY",
                                        price |-> level,
                                        value |-> Rat(TRADE_AMOUNT_USDT, 1)])]
         ELSE BuySimDescending(k + 1, now, price, st)

RECURSIVE BuySimLogFirst(_, _, _, _)
\* mutant: the BUY event is inserted at the head of the log
BuySimLogFirst(k, now, price, st) ==
    IF k > Len(grid_levels) THEN st
    ELSE LET level == grid_levels[k] IN
         IF price <= level /\ ~is_already_bought(level, st.open)
         THEN [open |-> Append(st.open, [buy_price |-> level,
                                         amount |-> TRADE_AMOUNT_USDT,
                                         timestamp |-> now]),
               log  |-> <<[time |-> now, action |-> "BUY", price |-> level,
                           value |-> Rat(TRADE_AMOUNT_USDT, 1)]>> \o st.log]
         ELSE BuySimLogFirst(k + 1, now, price, st)

RECURSIVE BuySimAtOrBelowPrice(_, _, _, _)
\* mutant: the scan takes the first free level at or below the price
BuySimAtOrBelowPrice(k, now, price, st) ==
    IF k > Len(grid_levels) THEN st
    ELSE LET level == grid_levels[k] IN
         IF price >= level /\ ~is_already_bought(level, st.open)
         THEN [open |-> Append(st.open, [buy_price |-> level,
                                         amount |-> TRADE_AMOUNT_USDT,
                                         timestamp |-> now]),
               log  |-> Append(st.log, [time |-> now, action |-> "BUY",
                                        price |-> level,
                                        value |-> Rat(TRADE_AMOUNT_USDT, 1)])]
         ELSE BuySimAtOrBelowPrice(k + 1, now, price, st)

RECURSIVE BuySim(_, _, _, _)
\* for level in grid_levels: if price <= level and not is_already_bought(level):
\* append position and BUY event; break.  k is the index of the level under
\* the loop, st the live state [open, log].
BuySim(k, now, price, st) ==
    IF k > Len(grid_levels) THEN st
    ELSE LET level == grid_levels[k] IN
         IF price <= level /\ ~is_already_bought(level, st.open)
         THEN [open |-> Append(st.open, [buy_price |-> level,
                                         amount |-> TRADE_AMOUNT_USDT,
                                         timestamp |-> now]),
               log  |-> Append(st.log, [time |-> now, action |-> "BUY",
                                        price |-> level,
                                        value |-> Rat(TRADE_AMOUNT_USDT, 1)])]
         ELSE BuySim(k + 1, now, price, st)

(***************************************************************************)
(* Inputs of a run: the form values and the series the fetch returns.      *)
(***************************************************************************)
SeqsUpTo(S, n) == UNION {[1..k -> S] : k \in 0..n}

\* grids around zero: spacing at, below and above the rounding step, bounds
\* on and between multiples of the step, empty and inverted ranges
SmallPrices == {5, 10, 15, 20, 35}

SmallInputs ==
    [lower : {-10, 5, 10}, upper : {5, 30}, spacing : {-4, 0, 4, 10},
     amount : {100}, prices : SeqsUpTo(SmallPrices, MaxTicks)]

\* the form defaults 0.16 / 0.002 / 100 on the band 0.16 - 0.164
ScenarioPrices == {15900, 16300, 16500, 16600}

ScenarioInputs ==
    [lower : {16000}, upper : {16400}, spacing : {200},
     amount : {100}, prices : SeqsUpTo(ScenarioPrices, MaxTicks)]

\* a band whose floats are 2 units apart, with a spacing of 1 unit
LargeInputs ==
    [lower : {2 ^ Prec}, upper : {2 ^ Prec + 4}, spacing : {1},
     amount : {100}, prices : SeqsUpTo({2 ^ Prec}, 1)]

\* a band of one level, on floats 2 units apart, with a spacing of 1 unit:
\* the running value of the grid loop moves on when the spacing is added,
\* the rounded level does not (0.49996 / 0.49996 / 5e-17 on real floats)
EdgeLower ==
    CHOOSE x \in (2 ^ Prec)..(2 ^ Prec + 4 * RoundStep) :
        /\ fl(x) = x
        /\ FAdd(x, 1) > x
        /\ FAdd(Round4(x), 1) = Round4(x)

EdgeInputs ==
    [lower : {EdgeLower}, upper : {EdgeLower}, spacing : {1}, amount : {100},
     prices : SeqsUpTo({Round4(EdgeLower), Round4(EdgeLower) + 4}, MaxTicks)]

Inputs == SmallInputs \cup ScenarioInputs \cup LargeInputs \cup EdgeInputs

\* mutant: the run starts with a position bought at the lowest level
StartBookSeeded ==
    [open |-> <<[buy_price |-> Round4(LOWER_BOUND),
                 amount |-> TRADE_AMOUNT_USDT, timestamp |-> 0]>>,
     log  |-> <<[time |-> 0, action |-> "BUY", price |-> Round4(LOWER_BOUND),
                 value |-> Rat(TRADE_AMOUNT_USDT, 1)]>>,
     total |-> Zero]

\* open_positions = []; trade_log = []; total_profit = 0
StartBook == [open |-> <<>>, log |-> <<>>, total |-> Zero]

(***************************************************************************)
(* The script run.  pc: "start" the button was pressed with credentials    *)
(* present; "rejected" st.error on the spacing; "stopped" st.stop() after  *)
(* a failed ping; "hung" grid generation never ends; "loop" between two    *)
(* rows of the series; "buy" between the SELL and the BUY simulation of a  *)
(* row; "crashed" ZeroDivisionError; "done" results displayed.             *)
(* Names the script has not bound yet hold empty values.                   *)
(***************************************************************************)
Init ==
    /\ \E in \in Inputs :
          /\ LOWER_BOUND = in.lower
          /\ UPPER_BOUND = in.upper
          /\ GRID_SPACING = in.spacing
          /\ TRADE_AMOUNT_USDT = in.amount
          /\ df_prices = in.prices
    /\ pc = "start"
    /\ grid_levels = <<>>
    /\ open_positions = <<>>
    /\ trade_log = <<>>
    /\ total_profit = Zero
    /\ tick = 0

\* if GRID_SPACING <= 0: st.error("Grid Spacing must be greater than 0.")
Reject ==
    /\ pc = "start"
    /\ SpacingRejected(GRID_SPACING)
    /\ pc' = "rejected"
    /\ UNCHANGED <<inputs, grid_levels, open_positions, trade_log,
                   total_profit, tick>>

\* client.ping() raises: st.error(...); st.stop()
ConnectFail ==
    /\ pc = "start"
    /\ ~SpacingRejected(GRID_SPACING)
    /\ pc' = "stopped"
    /\ UNCHANGED <<inputs, grid_levels, open_positions, trade_log,
                   total_profit, tick>>

\* connect, fetch, generate the grid levels, initialise the simulation state
Prepare ==
    /\ pc = "start"
    /\ ~SpacingRejected(GRID_SPACING)
    /\ LET g == GenerateGrid(LOWER_BOUND, UPPER_BOUND, GRID_SPACING) IN
          IF g.hung
          THEN /\ pc' = "hung"
               /\ UNCHANGED <<grid_levels, open_positions, trade_log,
                              total_profit>>
          ELSE /\ pc' = "loop"
               /\ grid_levels' = g.levels
               /\ open_positions' = StartBook.open
               /\ trade_log' = StartBook.log
               /\ total_profit' = StartBook.total
    /\ UNCHANGED <<inputs, tick>>

\* next row of the series: now = time, then the SELL simulation
SellPhase ==
    /\ pc = "loop"
    /\ tick < Len(df_prices)
    /\ LET now == tick + 1
           price == df_prices[tick + 1]
           st == SellSim(open_positions, 1, now, price,
                         [open |-> open_positions, log |-> trade_log,
                          total |-> total_profit, err |-> FALSE])
       IN  /\ open_positions' = st.open
           /\ trade_log' = st.log
           /\ total_profit' = st.total
           /\ pc' = IF st.err THEN "crashed" ELSE "buy"
    /\ tick' = tick + 1
    /\ UNCHANGED <<inputs, grid_levels>>

\* the BUY simulation of the row taken by SellPhase
BuyPhase ==
    /\ pc = "buy"
    /\ LET st == BuySim(1, tick, df_prices[tick],
                        [open |-> open_positions, log |-> trade_log])
       IN  /\ open_positions' = st.open
           /\ trade_log' = st.log
    /\ pc' = "loop"
    /\ UNCHANGED <<inputs, grid_levels, total_profit, tick>>

\* mutant: the positions still open are sold off at their sell price before
\* the results are displayed
DisplayCloseAll ==
    /\ pc = "loop"
    /\ tick = Len(df_prices)
    /\ LET st == SellSim(open_positions, 1, tick,
                         FAdd(FAdd(UPPER_BOUND, GRID_SPACING), RoundStep),
                         [open |-> open_positions, log |-> trade_log,
                          total |-> total_profit, err |-> FALSE])
       IN  /\ open_positions' = st.open
           /\ trade_log' = st.log
           /\ total_profit' = st.total
    /\ pc' = "done"
    /\ UNCHANGED <<inputs, grid_levels, tick>>

\* the series is exhausted: trade log table, profit metric, price chart
Display ==
    /\ pc = "loop"
    /\ tick = Len(df_prices)
    /\ pc' = "done"
    /\ UNCHANGED <<inputs, grid_levels, open_positions, trade_log,
                   total_profit, tick>>

Next ==
    \/ Reject
    \/ ConnectFail
    \/ Prepare
    \/ SellPhase
    \/ BuyPhase
    \/ Display

Spec == Init /\ [][Next]_vars

(***************************************************************************)
(* Vocabulary of the properties.                                           *)
(***************************************************************************)
Simulating == pc \in {"loop", "buy", "crashed", "done"}

Events(log, kind) == {i \in 1..Len(log) : log[i].action = kind}

RECURSIVE SellProfitSum(_, _)
\* sum of the value field of the SELL events among the first n events
SellProfitSum(log, n) ==
    IF n = 0 THEN Zero
    ELSE IF log[n].action = "SELL"
         THEN RatAdd(SellProfitSum(log, n - 1), log[n].value)
         ELSE SellProfitSum(log, n - 1)

RatLess(p, q) == p[1] * q[2] < q[1] * p[2]

\* the grid holds the same level value twice
RepeatedLevel(level) ==
    \E i, j \in 1..Len(grid_levels) :
        i < j /\ grid_levels[i] = level /\ grid_levels[j] = level

\* the positions of the list before that are missing in the list after
Closed(before, after) ==
    {before[i] : i \in 1..Len(before)} \ {after[i] : i \in 1..Len(after)}

(***************************************************************************)
(* C1  Occupancy invariant: in every state of a run, between the SELL and  *)
(* the BUY simulation of a row included, no two open positions have the    *)
(* same buy_price, also when the grid holds a level value more than once.  *)
(***************************************************************************)
C1_Occupancy ==
    \A i, j \in 1..Len(open_positions) :
        i # j => open_positions[i].buy_price # open_positions[j].buy_price

\* a row at or below a repeated, occupied level bought the next level instead
C1_Witness ==
    /\ pc = "loop"
    /\ tick >= 2
    /\ Len(open_positions) >= 2
    /\ \E k \in 1..Len(open_positions) - 1 :
          /\ RepeatedLevel(open_positions[k].buy_price)
          /\ df_prices[tick] <= open_positions[k].buy_price
    /\ open_positions[Len(open_positions)].timestamp = tick

(***************************************************************************)
(* C2  At most one buy per tick: the trade log holds at most one BUY event *)
(* per row of the series, and no step of a run adds more than one open     *)
(* position, even when several free levels are at or above the price.      *)
(***************************************************************************)
C2_OneBuyPerTick ==
    [][ /\ \A t \in 1..tick' :
              Cardinality({i \in Events(trade_log', "BUY") :
                              trade_log'[i].time = t}) <= 1
        /\ Len(open_positions') <= Len(open_positions) + 1 ]_vars

\* a BUY was logged for this row while another free level was also eligible
C2_Witness ==
    /\ pc = "loop"
    /\ tick >= 1
    /\ Len(trade_log) >= 1
    /\ trade_log[Len(trade_log)].action = "BUY"
    /\ trade_log[Len(trade_log)].time = tick
    /\ \E k \in 1..Len(grid_levels) :
          /\ df_prices[tick] <= grid_levels[k]
          /\ ~is_already_bought(grid_levels[k], open_positions)

(***************************************************************************)
(* C3  Profit formula: every SELL event a step appends closes a position   *)
(* p that the step removed, with price = p.buy_price + spacing (the float  *)
(* sum the code takes) and profit = spacing * trade_amount / p.buy_price;  *)
(* total_profit is always the sum of the profit fields of the SELL events  *)
(* of the log.                                                             *)
(***************************************************************************)
C3_ProfitFormula ==
    /\ total_profit = SellProfitSum(trade_log, Len(trade_log))
    /\ [][ /\ \A k \in (Len(trade_log) + 1)..Len(trade_log') :
                 trade_log'[k].action = "SELL" =>
                    \E p \in Closed(open_positions, open_positions') :
                       /\ trade_log'[k].price
                             = FAdd(p.buy_price, GRID_SPACING)
                       /\ trade_log'[k].value[1] * p.buy_price
                             = GRID_SPACING * TRADE_AMOUNT_USDT
                                  * trade_log'[k].value[2]
           /\ total_profit' = SellProfitSum(trade_log', Len(trade_log')) ]_vars

\* two positions bought at different prices were sold
C3_Witness ==
    \E i, j \in Events(trade_log, "SELL") :
        /\ trade_log[i].price # trade_log[j].price
        /\ trade_log[i].value # trade_log[j].value
        /\ total_profit = RatAdd(trade_log[i].value, trade_log[j].value)

(***************************************************************************)
(* C4  Unrealized positions are excluded: the step that ends the series    *)
(* changes neither the positions, the log nor the profit total, and at the *)
(* end every open position is an unmatched BUY: the log holds one SELL     *)
(* less than BUY per open position and no SELL at its sell price since it  *)
(* was opened.                                                             *)
(***************************************************************************)
C4_UnrealizedExcluded ==
    /\ [](pc = "done" =>
             /\ Cardinality(Events(trade_log, "SELL")) + Len(open_positions)
                   = Cardinality(Events(trade_log, "BUY"))
             /\ \A k \in 1..Len(open_positions) :
                   ~\E i \in Events(trade_log, "SELL") :
                       /\ trade_log[i].time >= open_positions[k].timestamp
                       /\ trade_log[i].price
                             = open_positions[k].buy_price + GRID_SPACING)
    /\ [][pc' = "done" =>
             UNCHANGED <<open_positions, trade_log, total_profit>>]_vars

\* a run that realized a profit ended with a position still open
C4_Witness ==
    /\ pc = "done"
    /\ Len(open_positions) >= 1
    /\ Events(trade_log, "SELL") # {}
    /\ RatLess(Zero, total_profit)

(***************************************************************************)
(* C5  Invalid configuration rejected: with spacing <= 0 the run goes from *)
(* the start to the rejection only; no grid is generated, no row of the    *)
(* series is taken, and there is no trade, no position and no profit.      *)
(***************************************************************************)
C5_SpacingRejected ==
    GRID_SPACING <= 0 =>
        /\ pc \in {"start", "rejected"}
        /\ grid_levels = <<>>
        /\ tick = 0
        /\ trade_log = <<>>
        /\ open_positions = <<>>
        /\ total_profit = Zero

\* a zero spacing was rejected on a valid band with a non-empty series
C5_Witness ==
    /\ pc = "rejected"
    /\ GRID_SPACING = 0
    /\ LOWER_BOUND <= UPPER_BOUND
    /\ Len(df_prices) > 0

(***************************************************************************)
(* C6  (as claimed) A configuration with lower_bound > upper_bound is      *)
(* rejected before any simulation work: the run never enters the           *)
(* simulation loop and takes no row of the series.                         *)
(***************************************************************************)
C6_InvertedBandRejected ==
    LOWER_BOUND > UPPER_BOUND => ~Simulating /\ tick = 0

(***************************************************************************)
(* C7  (as claimed) For spacing > 0 and lower_bound <= upper_bound the     *)
(* generated grid levels are strictly ascending, hence pairwise distinct.  *)
(***************************************************************************)
C7_GridStrictlyAscending ==
    (GRID_SPACING > 0 /\ LOWER_BOUND <= UPPER_BOUND /\ Simulating) =>
        \A i, j \in 1..Len(grid_levels) :
            i < j => grid_levels[i] < grid_levels[j]

(***************************************************************************)
(* C8  (as claimed) Grid bounds: for spacing > 0 and lower_bound <=        *)
(* upper_bound grid generation terminates, the first level is              *)
(* round(lower_bound, 4), every level is within half a rounding step of    *)
(* [lower_bound, upper_bound], and consecutive levels differ by spacing up *)
(* to one rounding step.                                                   *)
(***************************************************************************)
C8_LevelsWithinBounds ==
    /\ grid_levels[1] = Round4(LOWER_BOUND)
    /\ \A k \in 1..Len(grid_levels) :
          /\ 2 * LOWER_BOUND - RoundStep <= 2 * grid_levels[k]
          /\ 2 * grid_levels[k] <= 2 * UPPER_BOUND + RoundStep
    /\ \A k \in 1..Len(grid_levels) - 1 :
          Abs(grid_levels[k + 1] - grid_levels[k] - GRID_SPACING) <= RoundStep

C8_GridBounds ==
    (GRID_SPACING > 0 /\ LOWER_BOUND <= UPPER_BOUND) =>
        /\ pc # "hung"
        /\ Simulating => C8_LevelsWithinBounds

(***************************************************************************)
(* C9  Empty input: a run over an empty price series raises no error and   *)
(* ends with an empty trade log, a zero profit total and no open position, *)
(* whatever the grid levels.                                               *)
(***************************************************************************)
C9_EmptyInput ==
    df_prices = <<>> =>
        /\ pc # "crashed"
        /\ Simulating =>
              /\ trade_log = <<>>
              /\ total_profit = Zero
              /\ open_positions = <<>>

\* the results of an empty series were displayed for a grid with levels
C9_Witness ==
    /\ pc = "done"
    /\ df_prices = <<>>
    /\ Len(grid_levels) >= 2

(***************************************************************************)
(* C10  End-to-end scenario: levels [0.16, 0.162, 0.164], spacing 0.002,   *)
(* trade amount 100, prices [0.165, 0.159, 0.163, 0.166].  Tick 1 leaves   *)
(* the log empty; at the end the log is BUY 0.16 (tick 2), SELL 0.162 with *)
(* profit 1.25 (tick 3), BUY 0.164 (tick 3), SELL 0.166 with profit        *)
(* 0.002 * 100 / 0.164 = 50/41 (tick 4), and no position is open.          *)
(***************************************************************************)
ScenarioRun ==
    /\ grid_levels = <<16000, 16200, 16400>>
    /\ GRID_SPACING = 200
    /\ TRADE_AMOUNT_USDT = 100
    /\ df_prices = <<16500, 15900, 16300, 16600>>

C10_Scenario ==
    ScenarioRun =>
        /\ tick = 1 => trade_log = <<>>
        /\ pc = "done" =>
              /\ trade_log =
                    << [time |-> 2, action |-> "BUY", price |-> 16000,
                        value |-> <<100, 1>>],
                       [time |-> 3, action |-> "SELL", price |-> 16200,
                        value |-> <<5, 4>>],
                       [time |-> 3, action |-> "BUY", price |-> 16400,
                        value |-> <<100, 1>>],
                       [time |-> 4, action |-> "SELL", price |-> 16600,
                        value |-> <<50, 41>>] >>
              /\ open_positions = <<>>
              /\ total_profit = <<405, 164>>

\* the scenario ran to its end
C10_Witness ==
    /\ ScenarioRun
    /\ pc = "done"
    /\ tick = 4
    /\ Len(trade_log) = 4

(***************************************************************************)
(* C11  Sell phase before buy phase: in the log every SELL event of a row  *)
(* comes before the BUY event of that row, and between the two phases of a *)
(* row every level whose position the sell phase just closed is unoccupied *)
(* for the buy scan.                                                       *)
(***************************************************************************)
C11_SellBeforeBuy ==
    /\ \A i \in Events(trade_log, "SELL"), j \in Events(trade_log, "BUY") :
          trade_log[i].time = trade_log[j].time => i < j
    /\ pc = "buy" =>
          \A i \in Events(trade_log, "SELL"), k \in 1..Len(grid_levels) :
              (/\ trade_log[i].time = tick
               /\ trade_log[i].price = FAdd(grid_levels[k], GRID_SPACING))
                  => ~is_already_bought(grid_levels[k], open_positions)

\* a level was sold and bought again by the same row
C11_Witness ==
    /\ pc = "loop"
    /\ \E i \in 1..Len(trade_log) - 1 :
          /\ trade_log[i].action = "SELL"
          /\ trade_log[i + 1].action = "BUY"
          /\ trade_log[i].time = trade_log[i + 1].time
          /\ trade_log[i].price = FAdd(trade_log[i + 1].price, GRID_SPACING)

(***************************************************************************)
(* C12  Buy policy: the buy phase of a row looks at the set of grid levels *)
(* at or above the price that hold no open position.  If the set is not    *)
(* empty it opens exactly one position, at the minimum of the set, with    *)
(* amount trade_amount, and appends [timestamp, BUY, level, trade_amount]; *)
(* if it is empty it opens no position and appends no event.               *)
(***************************************************************************)
FreeLevels(price) ==
    {grid_levels[k] : k \in {n \in 1..Len(grid_levels) :
        /\ price <= grid_levels[n]
        /\ \A i \in 1..Len(open_positions) :
              open_positions[i].buy_price # grid_levels[n]}}

C12_BuyPolicy ==
    [][pc = "buy" =>
         LET free == FreeLevels(df_prices[tick]) IN
         IF free = {}
         THEN UNCHANGED <<open_positions, trade_log>>
         ELSE LET lowest == CHOOSE l \in free : \A m \in free : l <= m IN
              /\ open_positions' =
                    Append(open_positions,
                           [buy_price |-> lowest, amount |-> TRADE_AMOUNT_USDT,
                            timestamp |-> tick])
              /\ trade_log' =
                    Append(trade_log,
                           [time |-> tick, action |-> "BUY", price |-> lowest,
                            value |-> <<TRADE_AMOUNT_USDT, 1>>]) ]_vars

\* with the lowest level occupied and the price at or below it, the row bought
\* the next level although a higher one was free as well
C12_Witness ==
    /\ pc = "loop"
    /\ tick >= 2
    /\ Len(trade_log) >= 2
    /\ trade_log[Len(trade_log)].action = "BUY"
    /\ trade_log[Len(trade_log)].time = tick
    /\ df_prices[tick] <= grid_levels[1]
    /\ trade_log[Len(trade_log)].price > grid_levels[1]
    /\ trade_log[Len(trade_log)].price < grid_levels[Len(grid_levels)]
    /\ ~is_already_bought(grid_levels[Len(grid_levels)], open_positions)

(***************************************************************************)
(* C13  Sell phase: the sell phase of a row removes exactly the positions  *)
(* that were open when the row began and have buy_price + spacing <= price *)
(* (the float sum the code takes), each with one SELL event; every other   *)
(* position stays, unchanged and in place, and after the phase no open     *)
(* position has buy_price + spacing <= price.                              *)
(***************************************************************************)
C13_SellPhaseExact ==
    [][(pc = "loop" /\ pc' = "buy") =>
         LET price == df_prices[tick']
             Stays(p) == ~(FAdd(p.buy_price, GRID_SPACING) <= price)
             due == {i \in 1..Len(open_positions) :
                        ~Stays(open_positions[i])}
             new == (Len(trade_log) + 1)..Len(trade_log')
         IN  /\ open_positions' = SelectSeq(open_positions, Stays)
             /\ Len(trade_log') = Len(trade_log) + Cardinality(due)
             /\ \A k \in new : trade_log'[k].action = "SELL"
             /\ \A i \in due :
                   Cardinality({k \in new : trade_log'[k].price =
                       FAdd(open_positions[i].buy_price, GRID_SPACING)}) = 1
             /\ \A i \in 1..Len(open_positions') :
                   Stays(open_positions'[i]) ]_vars

\* a row closed two positions and left a third one open
C13_Witness ==
    /\ pc = "buy"
    /\ Len(open_positions) >= 1
    /\ Cardinality({i \in Events(trade_log, "SELL") :
                       trade_log[i].time = tick}) >= 2

(***************************************************************************)
(* C14  Order of the SELL events of a row: open_positions is kept in the   *)
(* order in which the positions were opened, and the SELL events a row     *)
(* appends follow that order, whatever the prices.                         *)
(***************************************************************************)
C14_SellsInOpeningOrder ==
    /\ \A i, j \in 1..Len(open_positions) :
          i < j => open_positions[i].timestamp < open_positions[j].timestamp
    /\ [][(pc = "loop" /\ pc' = "buy") =>
            LET Due(p) == FAdd(p.buy_price, GRID_SPACING) <= df_prices[tick']
                closed == SelectSeq(open_positions, Due)
            IN  \A k \in 1..Len(closed) :
                   /\ Len(trade_log) + k <= Len(trade_log')
                   /\ trade_log'[Len(trade_log) + k].action = "SELL"
                   /\ trade_log'[Len(trade_log) + k].price
                         = FAdd(closed[k].buy_price, GRID_SPACING) ]_vars

\* a row sold the position opened first at the higher price before the
\* position opened later at the lower price
C14_Witness ==
    \E i \in 1..Len(trade_log) - 1 :
        /\ trade_log[i].action = "SELL"
        /\ trade_log[i + 1].action = "SELL"
        /\ trade_log[i].time = trade_log[i + 1].time
        /\ trade_log[i].price > trade_log[i + 1].price

(***************************************************************************)
(* C15  Append-only log: every step keeps the events already logged and    *)
(* only adds events at the end, and the timestamps of the logged events    *)
(* are non-decreasing.  The rows of the series carry their row number as   *)
(* timestamp, so the series is in ascending timestamp order.               *)
(***************************************************************************)
C15_AppendOnlyLog ==
    /\ \A i, j \in 1..Len(trade_log) :
          i < j => trade_log[i].time <= trade_log[j].time
    /\ [][ /\ Len(trade_log') >= Len(trade_log)
           /\ SubSeq(trade_log', 1, Len(trade_log)) = trade_log ]_vars

\* a row appended a SELL and a BUY event behind the events of earlier rows
C15_Witness ==
    /\ pc = "loop"
    /\ Len(trade_log) >= 4
    /\ trade_log[1].time < tick
    /\ trade_log[Len(trade_log) - 1].action = "SELL"
    /\ trade_log[Len(trade_log) - 1].time = tick
    /\ trade_log[Len(trade_log)].action = "BUY"
    /\ trade_log[Len(trade_log)].time = tick

(***************************************************************************)
(* C16  Accounting invariant: the number of BUY events minus the number of *)
(* SELL events is the number of open positions, and in every prefix of the *)
(* log the SELL events at the sell price of a level are at most as many as *)
(* the BUY events at that level: every SELL is preceded by a BUY of its    *)
(* level that no earlier SELL has matched.                                 *)
(***************************************************************************)
C16_Accounting ==
    /\ Cardinality(Events(trade_log, "BUY"))
          = Cardinality(Events(trade_log, "SELL")) + Len(open_positions)
    /\ \A n \in 1..Len(trade_log), k \in 1..Len(grid_levels) :
          Cardinality({i \in Events(trade_log, "SELL") :
                          /\ i <= n
                          /\ trade_log[i].price
                                = FAdd(grid_levels[k], GRID_SPACING)})
             <= Cardinality({j \in Events(trade_log, "BUY") :
                                /\ j <= n
                                /\ trade_log[j].price = grid_levels[k]})
    /\ \A i \in Events(trade_log, "SELL") :
          \E k \in 1..Len(grid_levels) :
              trade_log[i].price = FAdd(grid_levels[k], GRID_SPACING)

\* a level was bought, sold and bought again, and is still held
C16_Witness ==
    /\ pc = "loop"
    /\ Len(open_positions) >= 1
    /\ \E i, j, k \in 1..Len(trade_log) :
          /\ i < j /\ j < k
          /\ trade_log[i].action = "BUY"
          /\ trade_log[j].action = "SELL"
          /\ trade_log[k].action = "BUY"
          /\ trade_log[k].price = trade_log[i].price
          /\ trade_log[j].price = FAdd(trade_log[i].price, GRID_SPACING)
          /\ is_already_bought(trade_log[k].price, open_positions)

(***************************************************************************)
(* C17  (as claimed) No same-tick round trip: every BUY event logged       *)
(* before a SELL event of its level belongs to an earlier row, so no       *)
(* position is closed by the row that opened it, and no row buys a level   *)
(* whose position it has just sold.                                        *)
(***************************************************************************)
C17_SellAfterOpeningRow ==
    \A i \in Events(trade_log, "SELL"), j \in Events(trade_log, "BUY") :
        (j < i /\ trade_log[i].price = FAdd(trade_log[j].price, GRID_SPACING))
            => trade_log[j].time < trade_log[i].time

C17_NoSameTickRoundTrip ==
    /\ C17_SellAfterOpeningRow
    /\ \A i \in Events(trade_log, "SELL"), j \in Events(trade_log, "BUY") :
          trade_log[i].time = trade_log[j].time
             => trade_log[i].price # FAdd(trade_log[j].price, GRID_SPACING)

(***************************************************************************)
(* C18  No division by zero: when every price of the series is strictly    *)
(* positive, every position ever opened has buy_price > 0, also on a grid  *)
(* with levels at or below zero, and the profit computation never raises   *)
(* ZeroDivisionError.                                                      *)
(***************************************************************************)
C18_NoDivisionByZero ==
    (\A n \in 1..Len(df_prices) : df_prices[n] > 0) =>
        /\ pc # "crashed"
        /\ \A i \in 1..Len(open_positions) : open_positions[i].buy_price > 0
        /\ \A j \in Events(trade_log, "BUY") : trade_log[j].price > 0

\* a grid with a zero and a negative level bought and sold above them
C18_Witness ==
    /\ pc = "loop"
    /\ \E k \in 1..Len(grid_levels) : grid_levels[k] = 0
    /\ \E k \in 1..Len(grid_levels) : grid_levels[k] < 0
    /\ Events(trade_log, "SELL") # {}
    /\ Len(open_positions) >= 1

(***************************************************************************)
(* C19  Profit monotonicity: total_profit is 0 until the first SELL, no    *)
(* step lowers it, the steps that change it append at least one SELL       *)
(* event, and the buy phase leaves it unchanged.                           *)
(***************************************************************************)
C19_ProfitMonotone ==
    /\ Events(trade_log, "SELL") = {} => total_profit = Zero
    /\ [][ /\ ~RatLess(total_profit', total_profit)
           /\ total_profit' # total_profit =>
                 \E k \in (Len(trade_log) + 1)..Len(trade_log') :
                     trade_log'[k].action = "SELL"
           /\ pc = "buy" => total_profit' = total_profit ]_vars

\* the total rose in two rows and stayed through a later row without a SELL
C19_Witness ==
    /\ pc = "loop"
    /\ RatLess(Zero, total_profit)
    /\ \E i, j \in Events(trade_log, "SELL") :
          trade_log[i].time < trade_log[j].time /\ trade_log[j].time < tick

=============================================================================
